---- MODULE Spec2Model ----
(***************************************************************************)
(* Evacuation network of main.py / main_final.py / figures.py.             *)
(*                                                                         *)
(* The scripts build an 8-node directed graph (build_graph), compute a     *)
(* maximum flow (compute_max_flow -> nx.maximum_flow) and a minimum-cost   *)
(* flow of that value (min_cost_for_flow -> nx.min_cost_flow), then close  *)
(* a corridor on a copy of the graph and compute both again (main).        *)
(*                                                                         *)
(* The two networkx routines are modelled by what they compute, one        *)
(* augmentation per step:                                                  *)
(*   nx.maximum_flow  - flow augmentation over the residual network that   *)
(*                      networkx builds (one arc per ordered pair, skew-   *)
(*                      symmetric flow), any augmenting path per step;     *)
(*   nx.min_cost_flow - successive cheapest augmenting paths over the      *)
(*                      residual arcs of the demand problem, any cheapest  *)
(*                      path per step; NetworkXUnfeasible when the demand  *)
(*                      cannot be met.                                     *)
(* Which path is taken is left open, so every tie-break is covered.        *)
(*                                                                         *)
(* Floats: --alpha and --speed are modelled in tenths (alpha = a/10,       *)
(* v = s/10), lengths are the whole numbers of default_edges, and          *)
(* int(round(Tij * 10)) is computed exactly on the rational                *)
(* (100 * length + a * s) / s with Python's round-half-to-even.            *)
(***************************************************************************)
EXTENDS Integers, Sequences, FiniteSets

VARIABLES
    alpha,          \* args.alpha in tenths
    speed,          \* args.speed in tenths
    pending,        \* build_graph: index of the next EdgeSpec to add
    G,              \* the graph handed to the solvers: [node, edge]
    source,         \* source argument of the current call
    sink,           \* sink argument of the current call
    caller,         \* "build", "run_case" or "direct": who calls the solver
    pc,             \* position in the program
    flow,           \* flow on the edges of G inside / returned by a solver
    flow_amount,    \* min_cost_for_flow: the requested amount
    max_flow_val,   \* value returned by compute_max_flow (None before)
    min_cost,       \* total_cost returned by min_cost_for_flow (None before)
    prev_max,       \* history: max_flow_val of the graph before the last removal
    removed,        \* history: the edge removed last (NoEdge before)
    err             \* the exception that ended the call ("" when none)

vars == <<alpha, speed, pending, G, source, sink, caller, pc, flow,
          flow_amount, max_flow_val, min_cost, prev_max, removed, err>>

\* Python's None where a number is expected, and where an edge is
None == 0 - 1
NoEdge == << >>

(***************************************************************************)
(* default_edges and build_graph                                           *)
(***************************************************************************)

\* L(kind) of default_edges
L(kind) ==
    CASE kind = "corridor" -> 12
      [] kind = "ramp" -> 14
      [] kind = "stairs" -> 10

EdgeSpec(u, v, capacity, length, kind) ==
    [u |-> u, v |-> v, capacity |-> capacity, length |-> length, kind |-> kind]

\* default_edges with the capacity of S2->D mistyped (20 for 40)
default_edges_typo ==
    << EdgeSpec("N", "A", 120, L("corridor"), "corridor"),
       EdgeSpec("A", "B", 60, L("corridor"), "corridor"),
       EdgeSpec("A", "C", 60, L("corridor"), "corridor"),
       EdgeSpec("B", "S1", 40, L("corridor"), "corridor"),
       EdgeSpec("C", "S2", 40, L("corridor"), "corridor"),
       EdgeSpec("S1", "D", 40, L("stairs"), "stairs"),
       EdgeSpec("S2", "D", 20, L("stairs"), "stairs"),
       EdgeSpec("D", "S", 120, L("corridor"), "corridor"),
       EdgeSpec("B", "C", 20, 8, "corridor"),
       EdgeSpec("C", "B", 20, 8, "corridor"),
       EdgeSpec("S1", "S2", 15, 6, "corridor"),
       EdgeSpec("S2", "S1", 15, 6, "corridor") >>

default_edges ==
    << EdgeSpec("N", "A", 120, L("corridor"), "corridor"),
       EdgeSpec("A", "B", 60, L("corridor"), "corridor"),
       EdgeSpec("A", "C", 60, L("corridor"), "corridor"),
       EdgeSpec("B", "S1", 40, L("corridor"), "corridor"),
       EdgeSpec("C", "S2", 40, L("corridor"), "corridor"),
       EdgeSpec("S1", "D", 40, L("stairs"), "stairs"),
       EdgeSpec("S2", "D", 40, L("stairs"), "stairs"),
       EdgeSpec("D", "S", 120, L("corridor"), "corridor"),
       EdgeSpec("B", "C", 20, 8, "corridor"),
       EdgeSpec("C", "B", 20, 8, "corridor"),
       EdgeSpec("S1", "S2", 15, 6, "corridor"),
       EdgeSpec("S2", "S1", 15, 6, "corridor") >>

\* floor(n / d) for d > 0 and any integer n
FloorDiv(n, d) == IF n >= 0 THEN n \div d ELSE -((-n + d - 1) \div d)

\* Python round() of the rational num / den (den # 0): nearest integer, ties to even
RoundHalfEven(num, den) ==
    LET n == IF den < 0 THEN -num ELSE num
        d == IF den < 0 THEN -den ELSE den
        q == FloorDiv(n, d)
        r == n - q * d
    IN  IF 2 * r < d THEN q
        ELSE IF 2 * r > d THEN q + 1
        ELSE IF q % 2 = 0 THEN q ELSE q + 1

\* cost_int = int(round(Tij * 10)) with Tij = e.length / v + gamma
cost_int(e, a, s) ==
    LET gamma == IF e.kind = "stairs" THEN a ELSE 0
    IN  RoundHalfEven(100 * e.length + gamma * s, s)

EmptyGraph == [node |-> {}, edge |-> << >>]

\* G.add_edge(e.u, e.v, capacity=..., weight=...)
add_edge(g, e, a, s) ==
    LET k == <<e.u, e.v>>
        attr == [capacity |-> e.capacity, weight |-> cost_int(e, a, s)]
    IN  [node |-> g.node \cup {e.u, e.v},
         edge |-> [x \in (DOMAIN g.edge) \cup {k} |->
                      IF x = k THEN attr ELSE g.edge[x]]]

RECURSIVE build_upto(_, _, _)
build_upto(n, a, s) ==
    IF n = 0 THEN EmptyGraph
    ELSE add_edge(build_upto(n - 1, a, s), default_edges[n], a, s)

\* build_graph(alpha_stairs, v): all the edges of default_edges, in order
build_graph(a, s) == build_upto(Len(default_edges), a, s)

\* remove_edge that leaves the edge in place
remove_edge_noop(g, k) == g

\* G.remove_edge(u, v): the edge goes, its end nodes stay
remove_edge(g, k) ==
    [node |-> g.node, edge |-> [x \in (DOMAIN g.edge) \ {k} |-> g.edge[x]]]

Edges(g) == DOMAIN g.edge

\* parser defaults of --alpha (6.0) and --speed (1.2), in tenths
DefaultAlpha == 60
DefaultSpeed == 12

(***************************************************************************)
(* Helpers on flows                                                        *)
(***************************************************************************)

Min(a, b) == IF a <= b THEN a ELSE b

\* sum of f[x] over x in S
RECURSIVE SumFn(_, _)
SumFn(f, S) ==
    IF S = {} THEN 0
    ELSE LET x == CHOOSE y \in S : TRUE IN f[x] + SumFn(f, S \ {x})

\* the flow_dict entry of (u, v); 0 where G has no such edge
FlowOn(g, f, u, v) == IF <<u, v>> \in Edges(g) THEN f[<<u, v>>] ELSE 0

ZeroFlow(g) == [k \in Edges(g) |-> 0]

OutFlow(g, f, n) == SumFn(f, {k \in Edges(g) : k[1] = n})
InFlow(g, f, n) == SumFn(f, {k \in Edges(g) : k[2] = n})

\* the arcs <<p[i], p[i+1]>> of a node path
ArcsOf(p) == {<<p[i], p[i + 1]>> : i \in 1..(Len(p) - 1)}

\* simple paths from u to t along adj, never entering a node of seen
RECURSIVE PathsFrom(_, _, _, _)
PathsFrom(adj, u, t, seen) ==
    IF u = t THEN {<<t>>}
    ELSE UNION {{<<u>> \o p : p \in PathsFrom(adj, v, t, seen \cup {v})} :
                  v \in adj[u] \ seen}

(***************************************************************************)
(* compute_max_flow: nx.maximum_flow(G, source, sink, capacity="capacity") *)
(***************************************************************************)

\* max-flow reading the weight attribute as capacity
max_flow_capacity_wrong_attr(attr) == attr.weight

\* the edge attribute max-flow reads as capacity
max_flow_capacity(attr) == attr.capacity

\* residual network: capacity of the arc (u, v), 0 where G has no edge (u, v)
ArcCapacity(g, u, v) ==
    IF <<u, v>> \in Edges(g) THEN max_flow_capacity(g.edge[<<u, v>>]) ELSE 0

\* residual capacity that forgets the flow that can be cancelled
Residual_no_cancel(g, f, u, v) == ArcCapacity(g, u, v) - FlowOn(g, f, u, v)

\* what can still be pushed along the arc (u, v): the flow on the residual
\* network is skew-symmetric, so flow on (v, u) can be cancelled
Residual(g, f, u, v) ==
    ArcCapacity(g, u, v) - FlowOn(g, f, u, v) + FlowOn(g, f, v, u)

ResidualAdj(g, f) ==
    [u \in g.node |-> {v \in g.node : v # u /\ Residual(g, f, u, v) > 0}]

\* the augmenting paths: simple paths of positive residual capacity
AugmentingPaths(g, f, s, t) == PathsFrom(ResidualAdj(g, f), s, t, {s})

Bottleneck(g, f, p) ==
    LET r == {Residual(g, f, a[1], a[2]) : a \in ArcsOf(p)}
    IN  CHOOSE m \in r : \A x \in r : m <= x

\* push that adds along the path and never takes flow back
Push_forward_only(g, f, p, d) ==
    [k \in Edges(g) |-> IF k \in ArcsOf(p) THEN f[k] + d ELSE f[k]]

\* push d along p; only the net flow between two nodes is kept, as in the
\* flow_dict networkx returns (max(0, flow) per edge)
Push(g, f, p, d) ==
    [k \in Edges(g) |->
        IF k \in ArcsOf(p)
        THEN f[k] + d - Min(d, FlowOn(g, f, k[2], k[1]))
        ELSE IF <<k[2], k[1]>> \in ArcsOf(p)
        THEN f[k] - Min(d, f[k])
        ELSE f[k]]

\* flow_value: what leaves the source, net
FlowValue(g, f, s) == OutFlow(g, f, s) - InFlow(g, f, s)

(***************************************************************************)
(* min_cost_for_flow: nx.min_cost_flow(H, demand="demand",                 *)
(*                        capacity="capacity", weight="weight")            *)
(***************************************************************************)

\* min-cost flow reading the weight attribute as capacity
min_cost_capacity_wrong_attr(attr) == attr.weight

\* min-cost flow given a weight attribute no edge has: networkx reads 0
min_cost_weight_missing(attr) == 0

\* the edge attributes min-cost flow reads as capacity and as weight
min_cost_capacity(attr) == attr.capacity
min_cost_weight(attr) == attr.weight

\* residual arcs: <<edge, "fwd">> while the edge has room, <<edge, "bwd">>
\* while it carries flow that can be taken back
ResidualArcs(g, f) ==
    {<<k, "fwd">> : k \in {x \in Edges(g) : f[x] < min_cost_capacity(g.edge[x])}}
    \cup {<<k, "bwd">> : k \in {x \in Edges(g) : f[x] > 0}}

ArcTail(a) == IF a[2] = "fwd" THEN a[1][1] ELSE a[1][2]
ArcHead(a) == IF a[2] = "fwd" THEN a[1][2] ELSE a[1][1]
ArcCost(g, a) ==
    IF a[2] = "fwd" THEN min_cost_weight(g.edge[a[1]])
    ELSE -min_cost_weight(g.edge[a[1]])
ArcResidual(g, f, a) ==
    IF a[2] = "fwd" THEN min_cost_capacity(g.edge[a[1]]) - f[a[1]] ELSE f[a[1]]

\* simple paths of arcs from u to t, never entering a node of seen
RECURSIVE ArcPathsFrom(_, _, _, _)
ArcPathsFrom(arcs, u, t, seen) ==
    IF u = t THEN {<< >>}
    ELSE UNION {{<<a>> \o p : p \in ArcPathsFrom(arcs, ArcHead(a), t, seen \cup {ArcHead(a)})} :
                  a \in {b \in arcs : ArcTail(b) = u /\ ArcHead(b) \notin seen}}

Range(p) == {p[i] : i \in 1..Len(p)}

PathCost(g, p) == SumFn([a \in Range(p) |-> ArcCost(g, a)], Range(p))

\* the cheapest augmenting paths from s to t over the residual arcs (no
\* residual cycle has negative cost, so a cheapest walk is a simple path)
CheapestPaths(g, f, s, t) ==
    LET ps == ArcPathsFrom(ResidualArcs(g, f), s, t, {s})
    IN  {p \in ps : \A q \in ps : PathCost(g, p) <= PathCost(g, q)}

ArcBottleneck(g, f, p) ==
    LET r == {ArcResidual(g, f, a) : a \in Range(p)}
    IN  CHOOSE m \in r : \A x \in r : m <= x

ArcPush(g, f, p, d) ==
    [k \in Edges(g) |->
        IF <<k, "fwd">> \in Range(p) THEN f[k] + d
        ELSE IF <<k, "bwd">> \in Range(p) THEN f[k] - d
        ELSE f[k]]

\* total_cost += int(f) * int(H[u][v]["weight"]) over the flow_dict
total_cost(g, f) == SumFn([k \in Edges(g) |-> f[k] * g.edge[k].weight], Edges(g))

\* what is still to be sent from source to sink
Need(g, f, s, amount) == amount - FlowValue(g, f, s)

(***************************************************************************)
(* The program                                                             *)
(***************************************************************************)

LastEdge == Len(default_edges)

\* values of --alpha and --speed that argparse's type=float accepts, in tenths
AlphaArgs == {-200, 0, 60, 125}
SpeedArgs == {-12, 0, 5, 12, 25}

\* how many corridors are closed before a direct call of a solver
MaxClosed == 1

\* a name that is no node of the graph
Ghost == "X"

\* source / sink arguments of a direct call
CallNodes == build_graph(DefaultAlpha, DefaultSpeed).node \cup {Ghost}

\* flow_amount arguments of a direct call of min_cost_for_flow
FlowAmounts == {0, 20, 60, 80, 90}

Baseline == build_graph(DefaultAlpha, DefaultSpeed)

RECURSIVE remove_edges(_, _)
remove_edges(g, ks) ==
    IF ks = {} THEN g
    ELSE LET k == CHOOSE x \in ks : TRUE IN remove_edges(remove_edge(g, k), ks \ {k})

\* main(): parse_args, then build_graph(alpha_stairs=args.alpha, v=args.speed)
InitBuild ==
    /\ alpha \in AlphaArgs
    /\ speed \in SpeedArgs
    /\ pending = 1
    /\ G = EmptyGraph
    /\ source = "N"
    /\ sink = "S"
    /\ caller = "build"
    /\ pc = "build_graph"
    /\ flow = << >>
    /\ flow_amount = None
    /\ max_flow_val = None
    /\ min_cost = None
    /\ prev_max = None
    /\ removed = NoEdge
    /\ err = ""

\* main() with the parser defaults, at run_case(G, "BASELINE")
Init ==
    /\ alpha = DefaultAlpha
    /\ speed = DefaultSpeed
    /\ pending = LastEdge + 1
    /\ G = build_graph(alpha, speed)
    /\ source = "N"
    /\ sink = "S"
    /\ caller = "run_case"
    /\ pc = "run_case"
    /\ flow = ZeroFlow(G)
    /\ flow_amount = None
    /\ max_flow_val = None
    /\ min_cost = None
    /\ prev_max = None
    /\ removed = NoEdge
    /\ err = ""

\* a solver called directly, on the baseline graph or a copy with corridors closed
InitCall ==
    /\ alpha = DefaultAlpha
    /\ speed = DefaultSpeed
    /\ pending = LastEdge + 1
    /\ \E ks \in SUBSET Edges(Baseline) :
          /\ Cardinality(ks) <= MaxClosed
          /\ G = remove_edges(Baseline, ks)
    /\ source \in CallNodes
    /\ sink \in CallNodes
    /\ caller = "direct"
    /\ \/ pc = "call_max" /\ flow_amount = None
       \/ pc = "call_min" /\ flow_amount \in FlowAmounts
    /\ flow = ZeroFlow(G)
    /\ max_flow_val = None
    /\ min_cost = None
    /\ prev_max = None
    /\ removed = NoEdge
    /\ err = ""

\* build_graph, one turn of "for e in default_edges()"
AddEdge ==
    /\ pc = "build_graph"
    /\ pending <= LastEdge
    /\ speed # 0
    /\ G' = add_edge(G, default_edges[pending], alpha, speed)
    /\ pending' = pending + 1
    /\ UNCHANGED <<alpha, speed, source, sink, caller, pc, flow, flow_amount,
                   max_flow_val, min_cost, prev_max, removed, err>>

\* build_graph: e.length / v with v = 0
BuildRaise ==
    /\ pc = "build_graph"
    /\ pending <= LastEdge
    /\ speed = 0
    /\ pc' = "raised"
    /\ err' = "ZeroDivisionError"
    /\ UNCHANGED <<alpha, speed, pending, G, source, sink, caller, flow,
                   flow_amount, max_flow_val, min_cost, prev_max, removed>>

\* build_graph returns G
BuildReturn ==
    /\ pc = "build_graph"
    /\ pending = LastEdge + 1
    /\ pc' = "built"
    /\ flow' = ZeroFlow(G)
    /\ UNCHANGED <<alpha, speed, pending, G, source, sink, caller, flow_amount,
                   max_flow_val, min_cost, prev_max, removed, err>>

\* the check of the arguments that forgets the sink
MaxFlowArgsOk_source_only == source \in G.node /\ source # sink

\* nx.maximum_flow refuses a source or sink that is no node, and source = sink
MaxFlowArgsOk == source \in G.node /\ sink \in G.node /\ source # sink

\* compute_max_flow is entered: the residual network starts with zero flow
MaxFlowStart ==
    /\ pc \in {"run_case", "call_max"}
    /\ MaxFlowArgsOk
    /\ flow' = ZeroFlow(G)
    /\ pc' = "max_flow"
    /\ UNCHANGED <<alpha, speed, pending, G, source, sink, caller, flow_amount,
                   max_flow_val, min_cost, prev_max, removed, err>>

MaxFlowRaise ==
    /\ pc \in {"run_case", "call_max"}
    /\ ~MaxFlowArgsOk
    /\ pc' = "raised"
    /\ err' = "NetworkXError"
    /\ UNCHANGED <<alpha, speed, pending, G, source, sink, caller, flow,
                   flow_amount, max_flow_val, min_cost, prev_max, removed>>

\* one augmentation
Augment ==
    /\ pc = "max_flow"
    /\ \E p \in AugmentingPaths(G, flow, source, sink) :
          flow' = Push(G, flow, p, Bottleneck(G, flow, p))
    /\ UNCHANGED <<alpha, speed, pending, G, source, sink, caller, pc,
                   flow_amount, max_flow_val, min_cost, prev_max, removed, err>>

\* no augmenting path is left: return int(flow_value), flow_dict
MaxFlowReturn ==
    /\ pc = "max_flow"
    /\ AugmentingPaths(G, flow, source, sink) = {}
    /\ max_flow_val' = FlowValue(G, flow, source)
    /\ pc' = IF caller = "run_case" THEN "have_max" ELSE "returned"
    /\ UNCHANGED <<alpha, speed, pending, G, source, sink, caller, flow,
                   flow_amount, min_cost, prev_max, removed, err>>

\* min_cost_for_flow: H.nodes[source]["demand"] = -flow_amount, then
\* H.nodes[sink]["demand"] = flow_amount; a missing node is a KeyError, and
\* with source = sink the second assignment wins and the demands sum to
\* flow_amount
MinCostError(amount) ==
    IF source \notin G.node \/ sink \notin G.node THEN "KeyError"
    ELSE IF source = sink /\ amount # 0 THEN "NetworkXUnfeasible"
    ELSE ""

\* run_case: min_cost_for_flow(G, max_flow_val, "N", "S")
MinCostStart ==
    /\ pc = "have_max"
    /\ MinCostError(max_flow_val) = ""
    /\ flow_amount' = max_flow_val
    /\ flow' = ZeroFlow(G)
    /\ pc' = "min_cost"
    /\ UNCHANGED <<alpha, speed, pending, G, source, sink, caller,
                   max_flow_val, min_cost, prev_max, removed, err>>

\* min_cost_for_flow(G, flow_amount, source, sink) called directly
MinCostCall ==
    /\ pc = "call_min"
    /\ MinCostError(flow_amount) = ""
    /\ flow' = ZeroFlow(G)
    /\ pc' = "min_cost"
    /\ UNCHANGED <<alpha, speed, pending, G, source, sink, caller, flow_amount,
                   max_flow_val, min_cost, prev_max, removed, err>>

MinCostCallRaise ==
    /\ pc = "call_min"
    /\ MinCostError(flow_amount) # ""
    /\ pc' = "raised"
    /\ err' = MinCostError(flow_amount)
    /\ UNCHANGED <<alpha, speed, pending, G, source, sink, caller, flow,
                   flow_amount, max_flow_val, min_cost, prev_max, removed>>

\* one augmentation along a cheapest path, by what is still needed at most
MinCostAugment ==
    /\ pc = "min_cost"
    /\ Need(G, flow, source, flow_amount) > 0
    /\ \E p \in CheapestPaths(G, flow, source, sink) :
          flow' = ArcPush(G, flow, p,
                          Min(Need(G, flow, source, flow_amount),
                              ArcBottleneck(G, flow, p)))
    /\ UNCHANGED <<alpha, speed, pending, G, source, sink, caller, pc,
                   flow_amount, max_flow_val, min_cost, prev_max, removed, err>>

\* every demand is met: return int(total_cost), flow_dict
MinCostReturn ==
    /\ pc = "min_cost"
    /\ Need(G, flow, source, flow_amount) = 0
    /\ min_cost' = total_cost(G, flow)
    /\ pc' = IF caller = "run_case" THEN "reported" ELSE "returned"
    /\ UNCHANGED <<alpha, speed, pending, G, source, sink, caller, flow,
                   flow_amount, max_flow_val, prev_max, removed, err>>

\* the demand cannot be met: nx.NetworkXUnfeasible
MinCostUnfeasible ==
    /\ pc = "min_cost"
    /\ Need(G, flow, source, flow_amount) > 0
    /\ CheapestPaths(G, flow, source, sink) = {}
    /\ pc' = "raised"
    /\ err' = "NetworkXUnfeasible"
    /\ UNCHANGED <<alpha, speed, pending, G, source, sink, caller, flow,
                   flow_amount, max_flow_val, min_cost, prev_max, removed>>

\* main: G_scen = G.copy(); if G_scen.has_edge(u, v): G_scen.remove_edge(u, v);
\* run_case(G_scen, ...).  main closes A->B; the corridor is left open here,
\* and a closed copy may be closed further.
CloseCorridor ==
    /\ pc = "reported"
    /\ \E k \in Edges(G) :
          /\ G' = remove_edge(G, k)
          /\ removed' = k
    /\ prev_max' = max_flow_val
    /\ flow' = ZeroFlow(G')
    /\ flow_amount' = None
    /\ max_flow_val' = None
    /\ min_cost' = None
    /\ pc' = "run_case"
    /\ UNCHANGED <<alpha, speed, pending, source, sink, caller, err>>

Next ==
    \/ MaxFlowStart
    \/ Augment
    \/ MaxFlowReturn
    \/ MinCostStart
    \/ MinCostAugment
    \/ MinCostReturn
    \/ CloseCorridor

NextCall ==
    \/ MaxFlowStart
    \/ MaxFlowRaise
    \/ Augment
    \/ MaxFlowReturn
    \/ MinCostCall
    \/ MinCostCallRaise
    \/ MinCostAugment
    \/ MinCostReturn
    \/ MinCostUnfeasible

NextBuild ==
    \/ AddEdge
    \/ BuildRaise
    \/ BuildReturn

\* main() with the default arguments, every corridor closure
Spec == Init /\ [][Next]_vars

\* compute_max_flow and min_cost_for_flow called with any arguments
SpecCall == InitCall /\ [][NextCall]_vars

\* build_graph for the arguments the command line accepts
SpecBuild == InitBuild /\ [][NextBuild]_vars

\* both: the program and the direct calls
SpecAll == (Init \/ InitCall) /\ [][Next \/ NextCall]_vars

(***************************************************************************)
(* What the claims speak of                                                *)
(***************************************************************************)

\* compute_max_flow has returned and its value is at hand
MaxFlowReturned == pc \in {"have_max", "returned"} /\ max_flow_val # None

\* min_cost_for_flow has returned
MinCostReturned == pc \in {"reported", "returned"} /\ min_cost # None

\* a direct call has ended, by a return or by an exception
CallEnded == caller = "direct" /\ pc \in {"returned", "raised"}

\* capacity of the cut (S, nodes \ S): the capacities of the edges leaving S
CutCapacity(g, S) ==
    LET out == {k \in Edges(g) : k[1] \in S /\ k[2] \notin S}
    IN  SumFn([k \in out |-> g.edge[k].capacity], out)

\* the cuts that separate s from t
Cuts(g, s, t) == {S \cup {s} : S \in SUBSET (g.node \ {s, t})}

\* 0 <= flow <= capacity on every edge, inflow = outflow at every inner node
ValidFlow(g, f, s, t) ==
    /\ \A k \in Edges(g) : 0 <= f[k] /\ f[k] <= g.edge[k].capacity
    /\ \A n \in g.node \ {s, t} : InFlow(g, f, n) = OutFlow(g, f, n)

\* the arcs along which f can be changed into another flow of the same value,
\* with the cost of a unit moved: (tail, head, cost)
ShiftArcs(g, f) ==
    {<<k[1], k[2], g.edge[k].weight>> :
        k \in {x \in Edges(g) : f[x] < g.edge[x].capacity}}
    \cup {<<k[2], k[1], -g.edge[k].weight>> : k \in {x \in Edges(g) : f[x] > 0}}

\* cheapest cost of a simple walk of shift arcs from u to t avoiding seen,
\* as a set of costs
RECURSIVE WalkCosts(_, _, _, _)
WalkCosts(arcs, u, t, seen) ==
    IF u = t THEN {0}
    ELSE UNION {{a[3] + c : c \in WalkCosts(arcs, a[2], t, seen \cup {a[2]})} :
                  a \in {b \in arcs : b[1] = u /\ b[2] \notin seen}}

\* a cheaper flow of the same value exists exactly when a unit can be moved
\* round a cycle of shift arcs at negative cost
CheaperFlowExists(g, f) ==
    \E a \in ShiftArcs(g, f) :
        \E c \in WalkCosts(ShiftArcs(g, f), a[2], a[1], {a[2]}) : a[3] + c < 0

\* C1: the value compute_max_flow returns equals the capacity of a cut that
\* separates source from sink, so no flow within the capacities is larger.
C1_MaxFlowIsMaximal ==
    MaxFlowReturned =>
        /\ \E S \in Cuts(G, source, sink) : CutCapacity(G, S) = max_flow_val
        /\ \A S \in Cuts(G, source, sink) : max_flow_val <= CutCapacity(G, S)

\* C1 happens: a direct call away from N -> S returned a positive value
C1_Witness ==
    /\ MaxFlowReturned
    /\ caller = "direct"
    /\ source # "N"
    /\ sink # "S"
    /\ max_flow_val > 0

\* C2: on the 12 edges of default_edges the maximum flow from N to S is 80.
C2_BaselineIs80 ==
    (MaxFlowReturned /\ G = Baseline /\ source = "N" /\ sink = "S")
        => max_flow_val = 80

C2_Witness ==
    /\ pc = "have_max"
    /\ G = Baseline
    /\ Cardinality(Edges(G)) = 12
    /\ max_flow_val = 80

\* C3: with A->B removed from the baseline the maximum flow from N to S is 60.
C3_ClosedABIs60 ==
    (MaxFlowReturned /\ G = remove_edge(Baseline, <<"A", "B">>)
       /\ source = "N" /\ sink = "S")
        => max_flow_val = 60

C3_Witness ==
    /\ pc = "have_max"
    /\ removed = <<"A", "B">>
    /\ G = remove_edge(Baseline, <<"A", "B">>)
    /\ prev_max = 80
    /\ max_flow_val = 60

\* C4: the total_cost min_cost_for_flow returns is the cost of the flow it
\* returns, that flow carries flow_amount, and no flow of the same value
\* within the capacities costs less.
C4_MinCostIsMinimal ==
    MinCostReturned =>
        /\ min_cost = SumFn([k \in Edges(G) |-> flow[k] * G.edge[k].weight], Edges(G))
        /\ FlowValue(G, flow, source) = flow_amount
        /\ ~CheaperFlowExists(G, flow)

\* C4 happens: a positive amount was routed although dearer routes were open
C4_Witness ==
    /\ MinCostReturned
    /\ min_cost > 0
    /\ \E a \in ShiftArcs(G, flow) :
          \E c \in WalkCosts(ShiftArcs(G, flow), a[2], a[1], {a[2]}) : a[3] + c > 0

\* C5: every assignment a solver returns respects the capacities and
\* conserves flow at every node other than source and sink.
C5_ReturnedFlowIsValid ==
    (MaxFlowReturned \/ MinCostReturned) => ValidFlow(G, flow, source, sink)

\* C5 happens: a returned flow fills one edge and leaves room on another
C5_Witness ==
    /\ MinCostReturned
    /\ \E k \in Edges(G) : flow[k] = G.edge[k].capacity /\ flow[k] > 0
    /\ \E k \in Edges(G) : flow[k] > 0 /\ flow[k] < G.edge[k].capacity

\* C6: min_cost_for_flow on the baseline graph with flow_amount = 90 from N
\* to S ends in the infeasible-flow error and returns neither cost nor flow.
C6_Amount90IsInfeasible ==
    (CallEnded /\ G = Baseline /\ source = "N" /\ sink = "S" /\ flow_amount = 90)
        => (pc = "raised" /\ err = "NetworkXUnfeasible" /\ min_cost = None)

C6_Witness ==
    /\ CallEnded
    /\ G = Baseline
    /\ source = "N"
    /\ sink = "S"
    /\ flow_amount = 90
    /\ err = "NetworkXUnfeasible"

\* C7: in run_case the min-cost step that follows the max-flow step never
\* meets the infeasible-flow error, on the baseline and on every copy with
\* corridors closed: while an amount is still needed a path for it exists.
C7_RunCaseIsFeasible ==
    /\ (caller = "run_case" /\ pc = "have_max") => MinCostError(max_flow_val) = ""
    /\ (caller = "run_case" /\ pc = "min_cost"
          /\ Need(G, flow, source, flow_amount) > 0)
         => CheapestPaths(G, flow, source, sink) # {}
    /\ caller = "run_case" => (pc # "raised" /\ err = "")

\* C7 happens: run_case finished on a copy with corridors closed, flow left
C7_Witness ==
    /\ caller = "run_case"
    /\ pc = "reported"
    /\ removed # NoEdge
    /\ Cardinality(Edges(G)) <= 10
    /\ flow_amount > 0
    /\ min_cost > 0

\* C8: the maximum flow of a copy with one edge removed is at most the
\* maximum flow of the graph it was copied from.
C8_RemovalNeverIncreases ==
    (pc = "have_max" /\ prev_max # None) => max_flow_val <= prev_max

\* C8 happens: a removal lowered the maximum flow
C8_Witness ==
    /\ pc = "have_max"
    /\ prev_max # None
    /\ removed \notin Edges(G)
    /\ max_flow_val < prev_max

\* a call of compute_max_flow whose source or sink is no node of the graph
MissingNodeCall ==
    /\ CallEnded
    /\ flow_amount = None
    /\ (source \notin G.node \/ sink \notin G.node)

\* C9 as stated: such a call is no error and returns flow_value = 0.
C9_MissingNodeReturnsZero ==
    MissingNodeCall => (pc = "returned" /\ err = "" /\ max_flow_val = 0)

\* C9 amended: such a call raises NetworkXError and returns no value.
C9_MissingNodeRaises ==
    MissingNodeCall => (pc = "raised" /\ err = "NetworkXError" /\ max_flow_val = None)

C9_Witness ==
    /\ MissingNodeCall
    /\ source \in G.node
    /\ sink = Ghost
    /\ pc = "raised"

\* C10: every edge of every graph build_graph produces has capacity >= 0
\* and weight >= 0.
C10_CostsNonNegative ==
    pc = "built" => \A k \in Edges(G) : G.edge[k].capacity >= 0 /\ G.edge[k].weight >= 0

====
